---- MODULE Spec2Model ----
(***************************************************************************)
(* Model of the puff-archive backend (src/server.py): a FastAPI service    *)
(* that keeps cheat records in a MongoDB collection, gates the writing     *)
(* routes behind one shared secret and stores uploaded thumbnails in one   *)
(* flat directory served back as static files.                             *)
(*                                                                         *)
(* Every route handler is an `async def` without an await in its body, so  *)
(* a handler runs to completion on the event loop: one action per route.   *)
(*                                                                         *)
(* Text is modelled in two ways.  Credentials, names and ids are TLA+      *)
(* strings, compared as wholes.  Media types, file names and URLs, which   *)
(* the code takes apart (startswith, split) or puts together (f-strings),  *)
(* are sequences of tokens: one-character strings, a uuid, or the mount    *)
(* prefix.                                                                 *)
(***************************************************************************)
EXTENDS Integers, Sequences, FiniteSets, TLC

VARIABLES cheats_collection, uploads, issued, next_oid, tokens, created, last

vars == <<cheats_collection, uploads, issued, next_oid, tokens, created, last>>

-----------------------------------------------------------------------------
(* Bounds *)

MaxUuid == 2

-----------------------------------------------------------------------------
(* Optional[str]: None is the empty tuple, a present value a 1-tuple *)

None == <<>>
Some(v) == <<v>>

(* src/server.py:48 *)
ADMIN_CODE == "201016"

(* src/server.py:44, the path the upload directory is mounted at *)
MOUNT == "/api/uploads/"

(* str(uuid.uuid4()) values *)
UUIDS == {"u" \o ToString(i) : i \in 1..MaxUuid}

-----------------------------------------------------------------------------
(* Python text operations on token sequences *)

(* prefix in s: the prefix is looked for anywhere in s *)
startswith_anywhere(s, prefix) ==
    \E i \in 0..Len(s) :
        /\ i + Len(prefix) <= Len(s)
        /\ SubSeq(s, i + 1, i + Len(prefix)) = prefix

(* s.startswith(prefix) *)
startswith(s, prefix) ==
    /\ Len(s) >= Len(prefix)
    /\ SubSeq(s, 1, Len(prefix)) = prefix

(* index of the first token equal to sep, 0 when there is none *)
RECURSIVE find(_, _, _)
find(s, sep, i) ==
    IF i > Len(s) THEN 0
    ELSE IF s[i] = sep THEN i
    ELSE find(s, sep, i + 1)

(* s.split(sep): the pieces between the separators, empty pieces kept *)
RECURSIVE split(_, _)
split(s, sep) ==
    LET i == find(s, sep, 1) IN
    IF i = 0 THEN <<s>>
    ELSE <<SubSeq(s, 1, i - 1)>> \o split(SubSeq(s, i + 1, Len(s)), sep)

(* upload_dir / name: pathlib drops empty and "." components; the result  *)
(* is the list of components below the upload directory                    *)
IsComponent(c) == c # <<>> /\ c # <<".">>
path_join(name) == SelectSeq(split(name, "/"), IsComponent)

-----------------------------------------------------------------------------
(* Auth functions *)

(* accepts any code that is present *)
verify_admin_code_any(code) == code # ""

verify_admin_code(code) == code = ADMIN_CODE

(* lets any non-empty credential through *)
get_current_user_nonempty(credentials) == credentials # ""

(* compares the credential with the whole header value *)
get_current_user_header(credentials) == credentials = "Bearer " \o ADMIN_CODE

(* TRUE when the dependency returns, FALSE when it raises the 401 *)
get_current_user(credentials) == ~(credentials # ADMIN_CODE)

-----------------------------------------------------------------------------
(* The store and the directory *)

(* the response model keeps the seven declared fields and drops `_id` *)
CheatResponse(cheat) ==
    [id            |-> cheat.id,
     name          |-> cheat.name,
     description   |-> cheat.description,
     link          |-> cheat.link,
     youtube_url   |-> cheat.youtube_url,
     thumbnail_url |-> cheat.thumbnail_url,
     created_at    |-> cheat.created_at]

(* an upsert keyed by name: documents of that name are replaced *)
insert_one_upsert(coll, doc, oid) ==
    LET other(d) == d.name # doc.name
    IN  Append(SelectSeq(coll, other), ("_id" :> oid) @@ doc)

(* collection.insert_one: the driver adds `_id` and appends the document *)
insert_one(coll, doc, oid) ==
    Append(coll, ("_id" :> oid) @@ doc)

(* collection.delete_one({"id": cheat_id}): the first match goes, if any *)
RECURSIVE first_match(_, _, _)
first_match(coll, cheat_id, i) ==
    IF i > Len(coll) THEN 0
    ELSE IF coll[i].id = cheat_id THEN i
    ELSE first_match(coll, cheat_id, i + 1)

(* drops the first match and every document after it *)
delete_one_truncate(coll, cheat_id) ==
    LET i == first_match(coll, cheat_id, 1) IN
    IF i = 0 THEN coll ELSE SubSeq(coll, 1, i - 1)

delete_one(coll, cheat_id) ==
    LET i == first_match(coll, cheat_id, 1) IN
    IF i = 0 THEN coll
    ELSE SubSeq(coll, 1, i - 1) \o SubSeq(coll, i + 1, Len(coll))

deleted_count(coll, cheat_id) ==
    IF first_match(coll, cheat_id, 1) = 0 THEN 0 ELSE 1

(* uuid.uuid4(): the values a call may return; the generator is taken to  *)
(* return a value it has not returned before                               *)
uuid4 == UUIDS \ issued

(* takes the id from the submitted name *)
cheat_data_named(cheat_id, cheat, created_at) ==
    [id            |-> cheat.name,
     name          |-> cheat.name,
     description   |-> cheat.description,
     link          |-> cheat.link,
     youtube_url   |-> cheat.youtube_url,
     thumbnail_url |-> cheat.thumbnail_url,
     created_at    |-> created_at]

(* forgets the optional video link *)
cheat_data_no_youtube(cheat_id, cheat, created_at) ==
    [id            |-> cheat_id,
     name          |-> cheat.name,
     description   |-> cheat.description,
     link          |-> cheat.link,
     youtube_url   |-> None,
     thumbnail_url |-> cheat.thumbnail_url,
     created_at    |-> created_at]

(* lines 114-122: the document create_cheat builds *)
cheat_data(cheat_id, cheat, created_at) ==
    [id            |-> cheat_id,
     name          |-> cheat.name,
     description   |-> cheat.description,
     link          |-> cheat.link,
     youtube_url   |-> cheat.youtube_url,
     thumbnail_url |-> cheat.thumbnail_url,
     created_at    |-> created_at]

(* stores the file under the name the client gave *)
unique_filename_client(u, filename) == filename

(* lines 141-142: the generated id, a dot, and what follows the last dot   *)
(* of the client's file name (the whole name when it has no dot)           *)
unique_filename(u, filename) ==
    LET pieces == split(filename, ".")
        file_extension == pieces[Len(pieces)]
    IN  <<u, ".">> \o file_extension

(* open(file_path, "wb") + copyfileobj: a file directly in the directory   *)
(* is created or truncated and filled; a path through a subdirectory fails *)
(* because the directory holds no subdirectories.  TRUE when it succeeds   *)
can_open(file_path) == Len(file_path) = 1

write_file(dir, file_path, content) == (file_path[1] :> content) @@ dir

(* GET on the static mount: the query is cut off the URL, the mount prefix *)
(* is stripped, the rest is normalised to components and looked up in the  *)
(* directory; only a regular file directly in the directory is served      *)
url_path(url) ==
    LET q == find(url, "?", 1) IN
    IF q = 0 THEN url ELSE SubSeq(url, 1, q - 1)

static_get(dir, url) ==
    LET p == url_path(url) IN
    IF Len(p) = 0 \/ p[1] # MOUNT THEN [status |-> 404, content |-> <<>>]
    ELSE LET parts == path_join(Tail(p)) IN
         IF Len(parts) = 1 /\ parts[1] \in DOMAIN dir
         THEN [status |-> 200, content |-> dir[parts[1]]]
         ELSE [status |-> 404, content |-> <<>>]

-----------------------------------------------------------------------------
(* Request inputs *)

(* codes posted to /api/auth *)
CODES == {ADMIN_CODE, "201017", ""}

(* credentials of a Bearer header; HTTPBearer passes on non-empty ones *)
BEARERS == {ADMIN_CODE, "201017"}

(* datetime.now().isoformat(): whatever the wall clock reads at the call *)
TIMESTAMPS == {"2024-05-01T10:00:00", "2024-05-01T10:00:00.000001"}

(* a URL no upload ever returned *)
DanglingUrl == <<MOUNT, "a", ".", "p">>

(* CheatCreate bodies; a client may store the URL of a file that is there, *)
(* any other text, or nothing                                              *)
CHEATS(dir) ==
    {[name |-> "aimbot", description |-> "desc", link |-> "http://x",
      youtube_url |-> None, thumbnail_url |-> t] :
        t \in {None} \cup {Some(<<MOUNT>> \o f) : f \in DOMAIN dir}}
    \cup
    {[name |-> "esp", description |-> "", link |-> "http://y",
      youtube_url |-> Some("yt"), thumbnail_url |-> Some(DanglingUrl)]}

CHEAT_IDS == UUIDS \cup {"nope"}

ImagePng == <<"i", "m", "a", "g", "e", "/", "p">>
CONTENT_TYPES ==
    {ImagePng,
     <<"i", "m", "a", "g", "e", "/">>,
     <<"i", "m", "a", "g", "e">>,
     <<"t", "/", "i", "m", "a", "g", "e", "/", "p">>,
     <<"I", "m", "a", "g", "e", "/", "p">>,
     <<>>}

FILENAMES ==
    {<<"a", ".", "p">>,
     <<"a", ".", "t", ".", "p">>,
     <<"p">>,
     <<"a", ".", "p", "/">>,
     <<"a", ".", "p", "/", "b">>,
     <<"a", ".", "p", "?", "b">>}

CONTENTS == {<<137, 80>>, <<>>}

(* an uploaded part: its file name, its declared media type (None when    *)
(* the part carries no Content-Type), its bytes                            *)
FILES ==
    [filename : FILENAMES, content_type : {Some(ImagePng)}, content : {<<137, 80>>}]
    \cup
    [filename : {<<"a", ".", "p">>}, content_type : {Some(ImagePng)}, content : CONTENTS]
    \cup
    [filename : {<<"a", ".", "p">>},
     content_type : {None} \cup {Some(c) : c \in CONTENT_TYPES},
     content : {<<137, 80>>}]

-----------------------------------------------------------------------------
(* Responses *)

(* the body FastAPI sends for a raised HTTPException *)
HTTPException(status_code, detail) ==
    [status |-> status_code, body |-> [detail |-> detail]]

(* an exception no handler catches *)
ServerError == [status |-> 500, body |-> [detail |-> "Internal Server Error"]]

Ok(body) == [status |-> 200, body |-> body]

Unauthorized == HTTPException(401, "Invalid authentication code")

AuthResponse(success, token) == [success |-> success, token |-> token]

(* the last exchange: the route, the bearer credential presented ("" on a  *)
(* route that takes none), the request, and the status and body answered   *)
Exchange(op, credentials, request, reply) ==
    [op |-> op, credentials |-> credentials, request |-> request,
     status |-> reply.status, body |-> reply.body]

NoRequest == [none |-> TRUE]

-----------------------------------------------------------------------------
(* `tokens` are the tokens clients hold; `created` are the records clients *)
(* were told exist and have not asked to delete since.                     *)

Init ==
    /\ cheats_collection = <<>>
    /\ uploads = <<>>
    /\ issued = {}
    /\ next_oid = 1
    /\ tokens = {}
    /\ created = {}
    /\ last = Exchange("none", "", NoRequest, [status |-> 0, body |-> [detail |-> ""]])

(* GET /api/health *)
health_check ==
    /\ last' = Exchange("health_check", "", NoRequest, Ok([status |-> "healthy"]))
    /\ UNCHANGED <<cheats_collection, uploads, issued, next_oid, tokens, created>>

(* POST /api/auth; the client keeps the token of a successful reply *)
authenticate(auth_request) ==
    /\ IF verify_admin_code(auth_request.code)
       THEN LET reply == AuthResponse(TRUE, ADMIN_CODE)
            IN  /\ last' = Exchange("authenticate", "", auth_request, Ok(reply))
                /\ tokens' = tokens \cup {reply.token}
       ELSE /\ last' = Exchange("authenticate", "", auth_request, Unauthorized)
            /\ tokens' = tokens
    /\ UNCHANGED <<cheats_collection, uploads, issued, next_oid, created>>

(* GET /api/cheats *)
get_cheats ==
    /\ last' = Exchange("get_cheats", "", NoRequest,
                        Ok([i \in 1..Len(cheats_collection) |->
                               CheatResponse(cheats_collection[i])]))
    /\ UNCHANGED <<cheats_collection, uploads, issued, next_oid, tokens, created>>

(* POST /api/cheats *)
create_cheat(credentials, cheat) ==
    IF ~get_current_user(credentials)
    THEN /\ last' = Exchange("create_cheat", credentials, cheat, Unauthorized)
         /\ UNCHANGED <<cheats_collection, uploads, issued, next_oid, tokens, created>>
    ELSE \E cheat_id \in uuid4, created_at \in TIMESTAMPS :
         LET data == cheat_data(cheat_id, cheat, created_at)
             coll == insert_one(cheats_collection, data, next_oid)
             reply == CheatResponse(coll[Len(coll)])
         IN  /\ cheats_collection' = coll
             /\ issued' = issued \cup {cheat_id}
             /\ next_oid' = next_oid + 1
             /\ last' = Exchange("create_cheat", credentials, cheat, Ok(reply))
             /\ created' = created \cup {reply}
             /\ UNCHANGED <<uploads, tokens>>

(* DELETE /api/cheats/{cheat_id} *)
delete_cheat(credentials, cheat_id) ==
    /\ IF ~get_current_user(credentials)
       THEN /\ last' = Exchange("delete_cheat", credentials, [cheat_id |-> cheat_id],
                                Unauthorized)
            /\ UNCHANGED <<cheats_collection, created>>
       ELSE /\ cheats_collection' = delete_one(cheats_collection, cheat_id)
            /\ created' = {r \in created : r.id # cheat_id}
            /\ last' = Exchange("delete_cheat", credentials, [cheat_id |-> cheat_id],
                                IF deleted_count(cheats_collection, cheat_id) = 0
                                THEN HTTPException(404, "Cheat not found")
                                ELSE Ok([message |-> "Cheat deleted successfully"]))
    /\ UNCHANGED <<uploads, issued, next_oid, tokens>>

(* POST /api/upload *)
upload_thumbnail(credentials, file) ==
    /\ IF ~get_current_user(credentials)
       THEN /\ last' = Exchange("upload_thumbnail", credentials, file, Unauthorized)
            /\ UNCHANGED <<uploads, issued>>
       ELSE IF file.content_type = None
       THEN /\ last' = Exchange("upload_thumbnail", credentials, file, ServerError)
            /\ UNCHANGED <<uploads, issued>>
       ELSE IF ~startswith(file.content_type[1], <<"i", "m", "a", "g", "e", "/">>)
       THEN /\ last' = Exchange("upload_thumbnail", credentials, file,
                                HTTPException(400, "File must be an image"))
            /\ UNCHANGED <<uploads, issued>>
       ELSE \E u \in uuid4 :
            LET name == unique_filename(u, file.filename)
                file_path == path_join(name)
            IN  /\ issued' = issued \cup {u}
                /\ IF can_open(file_path)
                   THEN /\ uploads' = write_file(uploads, file_path, file.content)
                        /\ last' = Exchange("upload_thumbnail", credentials, file,
                                            Ok([thumbnail_url |-> <<MOUNT>> \o name]))
                   ELSE /\ uploads' = uploads
                        /\ last' = Exchange("upload_thumbnail", credentials, file,
                                            ServerError)
    /\ UNCHANGED <<cheats_collection, next_oid, tokens, created>>

Next ==
    \/ health_check
    \/ \E code \in CODES : authenticate([code |-> code])
    \/ get_cheats
    \/ \E credentials \in BEARERS \cup tokens, cheat \in CHEATS(uploads) :
           create_cheat(credentials, cheat)
    \/ \E credentials \in BEARERS \cup tokens, cheat_id \in CHEAT_IDS :
           delete_cheat(credentials, cheat_id)
    \/ \E credentials \in BEARERS \cup tokens, file \in FILES :
           upload_thumbnail(credentials, file)

Spec == Init /\ [][Next]_vars

-----------------------------------------------------------------------------
(* Properties.  Every step of Next answers one request, and last' is that  *)
(* exchange: the properties read the request and the answer from last' and *)
(* compare the store and the directory before and after the step.          *)

Range(f) == {f[i] : i \in DOMAIN f}
ids(coll) == {coll[i].id : i \in DOMAIN coll}
WRITE_OPS == {"create_cheat", "delete_cheat", "upload_thumbnail"}

(* the declared type begins with the six characters of "image/" *)
ImagePrefix == <<"i", "m", "a", "g", "e", "/">>
IsImageType(t) == Len(t) >= 6 /\ \A i \in 1..6 : t[i] = ImagePrefix[i]

(* C1: authenticate answers 200 with success=true and a token exactly when *)
(* the submitted code is the shared secret; any other code gets the 401    *)
(* and a body without a token.                                             *)
C1_AuthIffSecret ==
    last.op = "authenticate" =>
        IF last.request.code = "201016"
        THEN /\ last.status = 200
             /\ last.body.success = TRUE
             /\ "token" \in DOMAIN last.body
        ELSE /\ last.status = 401
             /\ "token" \notin DOMAIN last.body

C1_Witness ==
    /\ last.op = "authenticate"
    /\ last.status = 401
    /\ tokens # {}

(* C2: a create, delete or upload request whose bearer credential is not   *)
(* the shared secret is answered 401 and changes neither the collection    *)
(* nor the upload directory, whatever the payload and the state.           *)
C2_UnauthorizedWriteRejected ==
    [][last'.op \in WRITE_OPS /\ last'.credentials # "201016" =>
          /\ last'.status = 401
          /\ cheats_collection' = cheats_collection
          /\ uploads' = uploads]_vars

C2_Witness ==
    /\ last.op \in WRITE_OPS
    /\ last.credentials # "201016"
    /\ last.status = 401
    /\ cheats_collection # <<>>
    /\ DOMAIN uploads # {}

(* C3: an authorized create answers with a record that carries the         *)
(* submitted fields and an id no record had before, and that equals the    *)
(* stored document as listed; every later get_cheats lists each record a   *)
(* create returned, until a delete of its id is asked for.                 *)
C3_CreateThenList ==
    [][/\ last'.op = "create_cheat" /\ last'.credentials = "201016" =>
            LET r == last'.body
                cheat == last'.request
                n == Len(cheats_collection')
            IN  /\ last'.status = 200
                /\ r.name = cheat.name
                /\ r.description = cheat.description
                /\ r.link = cheat.link
                /\ r.youtube_url = cheat.youtube_url
                /\ r.thumbnail_url = cheat.thumbnail_url
                /\ r.id \notin ids(cheats_collection)
                /\ n = Len(cheats_collection) + 1
                /\ r = CheatResponse(cheats_collection'[n])
                /\ r \in created'
       /\ last'.op = "get_cheats" => created \subseteq Range(last'.body)]_vars

C3_Witness ==
    /\ last.op = "get_cheats"
    /\ Len(last.body) = 2
    /\ Cardinality(created) = 2
    /\ \E r \in created : r.youtube_url # None

(* C4: an authorized delete of an id some record has removes that record   *)
(* and no other and answers 200; an authorized delete of an id no record   *)
(* has answers 404 and leaves the collection as it was.                    *)
C4_DeleteExactlyTarget ==
    [][last'.op = "delete_cheat" /\ last'.credentials = "201016" =>
          LET cheat_id == last'.request.cheat_id IN
          IF cheat_id \in ids(cheats_collection)
          THEN /\ last'.status = 200
               /\ Range(cheats_collection') =
                     {d \in Range(cheats_collection) : d.id # cheat_id}
               /\ Len(cheats_collection') = Len(cheats_collection) - 1
          ELSE /\ last'.status = 404
               /\ cheats_collection' = cheats_collection]_vars

C4_Witness ==
    /\ last.op = "delete_cheat"
    /\ last.status = 200
    /\ cheats_collection # <<>>

(* C5: no two records of the collection have the same id. *)
C5_IdUnique ==
    \A i, j \in DOMAIN cheats_collection :
        cheats_collection[i].id = cheats_collection[j].id => i = j

C5_Witness ==
    /\ Len(cheats_collection) >= 2
    /\ cheats_collection[1].name = cheats_collection[2].name

(* C6: an authorized upload whose declared type does not begin with        *)
(* "image/" is answered 400 and the upload directory stays as it was.      *)
C6_NonImageRejected ==
    [][/\ last'.op = "upload_thumbnail"
       /\ last'.credentials = "201016"
       /\ last'.request.content_type # None
       /\ ~IsImageType(last'.request.content_type[1])
       => /\ last'.status = 400
          /\ uploads' = uploads]_vars

C6_Witness ==
    /\ last.op = "upload_thumbnail"
    /\ last.status = 400
    /\ DOMAIN uploads # {}

(* C7: an authorized upload declared as an image, whatever its file name   *)
(* and bytes, is answered 200, is stored under a name the directory did    *)
(* not hold, leaves the files already there as they were, and the URL it   *)
(* returns fetches the uploaded bytes from the static route.               *)
C7_ImageUploadRoundTrip ==
    [][/\ last'.op = "upload_thumbnail"
       /\ last'.credentials = "201016"
       /\ last'.request.content_type # None
       /\ IsImageType(last'.request.content_type[1])
       => /\ last'.status = 200
          /\ \E f \in DOMAIN uploads' \ DOMAIN uploads :
                uploads'[f] = last'.request.content
          /\ \A f \in DOMAIN uploads : uploads'[f] = uploads[f]
          /\ static_get(uploads', last'.body.thumbnail_url) =
                [status |-> 200, content |-> last'.request.content]]_vars

(* C8: a stored record stays in the collection, all its fields as they     *)
(* are, across every step except an authorized delete naming its id.       *)
C8_RecordImmutable ==
    [][\A d \in Range(cheats_collection) :
         \/ d \in Range(cheats_collection')
         \/ /\ last'.op = "delete_cheat"
            /\ last'.credentials = "201016"
            /\ last'.request.cheat_id = d.id]_vars

C8_Witness ==
    /\ last.op = "create_cheat"
    /\ last.status = 200
    /\ Len(cheats_collection) = 2
    /\ cheats_collection[1].name = cheats_collection[2].name
    /\ cheats_collection[1].created_at # cheats_collection[2].created_at

(* C9: every file of the upload directory is still there, with the same    *)
(* bytes, after every step; create_cheat and delete_cheat leave the        *)
(* directory as it was, whatever thumbnail_url the record holds.           *)
C9_UploadsOnlyGrow ==
    [][/\ \A f \in DOMAIN uploads :
            f \in DOMAIN uploads' /\ uploads'[f] = uploads[f]
       /\ last'.op \in {"create_cheat", "delete_cheat"} => uploads' = uploads]_vars

C9_Witness ==
    /\ last.op = "delete_cheat"
    /\ last.status = 200
    /\ DOMAIN uploads # {}
    /\ cheats_collection = <<>>

(* C10: a token a successful authenticate returned is never answered 401   *)
(* by a writing route, in any later state; a failed authenticate returns   *)
(* no token.                                                               *)
C10_TokenPassesGate ==
    [][/\ last'.op \in WRITE_OPS /\ last'.credentials \in tokens =>
            last'.status # 401
       /\ last'.op = "authenticate" /\ last'.status # 200 =>
            "token" \notin DOMAIN last'.body /\ tokens' = tokens]_vars

C10_Witness ==
    /\ tokens # {}
    /\ last.op \in WRITE_OPS
    /\ last.credentials \in tokens
    /\ last.status = 200
    /\ Len(cheats_collection) + Cardinality(DOMAIN uploads) = 2

====
